---- MODULE Spec2Model ----
(***************************************************************************)
(* Model of the two scripts under font/:                                   *)
(*   bib-sort.py   keeps the cited entries of ref.bib and writes them to   *)
(*                 ref_output.bib                                          *)
(*   split-pdf.py  copies <base>.pdf to <base>_with_ref.pdf and truncates  *)
(*                 <base>.pdf to its first 5 pages                         *)
(* Text is a sequence of one-character strings, so that the regular        *)
(* expressions, str.split and str.strip are computed character by          *)
(* character as Python computes them.                                      *)
(***************************************************************************)
EXTENDS Integers, Sequences, FiniteSets, TLC

VARIABLES
    prog,               \* which script this run executes
    texFile,            \* main.tex: Missing, Undecodable or its text
    bibFile,            \* ref.bib: Missing, Undecodable or its text
    bibBlocks,          \* the blocks the text of ref.bib is made of (history)
    outFile,            \* ref_output.bib: Missing or its text
    outFile0,           \* ref_output.bib as it was before the run (history)
    outWritable,        \* whether ref_output.bib can be opened for writing
    pc,                 \* position of bib-sort's main()
    exc,                \* the exception in flight, or "none"
    citations,          \* main(): citations (a set)
    bib_entries,        \* main(): bib_entries (dict: key -> entry text)
    processed_entries,  \* main(): processed_entries (OrderedDict as a sequence of <<key, text>>)
    stdout,             \* lines printed by bib-sort
    exitStatus,         \* exit status of bib-sort, Running before it ends
    phases,             \* phases bib-sort has entered, in order (history)
    argv,               \* split-pdf: sys.argv[1:], the arguments after the script name
    pypdf2Installed,    \* split-pdf: whether "import PyPDF2" succeeds
    fs,                 \* split-pdf: the PDF files of the directory, name -> NoFile or pages
    fs0,                \* split-pdf: fs when the current run started (history)
    ppc,                \* split-pdf: position of main() / process_pdf()
    base_name,          \* process_pdf(): base_name
    writer,             \* process_pdf(): pages added to the PdfWriter
    pdfExit,            \* split-pdf: exit status of the current run, Running before it ends
    runs,               \* split-pdf: number of runs started
    prevRun             \* split-pdf: the last successful run before this one (history)

bibVars == <<texFile, bibFile, bibBlocks, outFile, outFile0, outWritable, pc, exc,
             citations, bib_entries, processed_entries, stdout, exitStatus, phases>>

pdfVars == <<argv, pypdf2Installed, fs, fs0, ppc, base_name, writer, pdfExit, runs, prevRun>>

vars == <<prog, bibVars, pdfVars>>

----------------------------------------------------------------------------
\* Bounds of the explored inputs

\* number of fragments a generated main.tex is made of
MaxCmds == 2
\* number of blocks a generated ref.bib is made of
MaxEntries == 2
\* number of pages of the largest PDF document
MaxPages == 6
\* number of consecutive runs of split-pdf
MaxRuns == 2

----------------------------------------------------------------------------
\* Text helpers (Python str methods)

\* a file that does not exist, and one whose bytes are not UTF-8: markers that
\* are no text (a text is a sequence of one-character strings)
Missing == <<"<missing>">>
Undecodable == <<"<undecodable>">>
Running == -1

\* characters str.strip() and the regex class \s remove
Whitespace == {" ", "\n", "\t"}

\* characters of the model's alphabet that the regex class \w rejects
NonWord == {"\\", "{", "}", ",", " ", "\n", "\t", "@"}

RECURSIVE lstrip(_)
lstrip(s) == IF s # <<>> /\ Head(s) \in Whitespace THEN lstrip(Tail(s)) ELSE s

RECURSIVE rstrip(_)
rstrip(s) ==
    IF s # <<>> /\ s[Len(s)] \in Whitespace
    THEN rstrip(SubSeq(s, 1, Len(s) - 1))
    ELSE s

\* str.strip()
strip(s) == rstrip(lstrip(s))

\* index of the first occurrence of a character of cs in s at or after i, 0 if none
RECURSIVE IndexFrom(_, _, _)
IndexFrom(s, cs, i) ==
    IF i > Len(s) THEN 0
    ELSE IF s[i] \in cs THEN i
    ELSE IndexFrom(s, cs, i + 1)

\* str.split(sep) for a one-character separator
RECURSIVE split(_, _)
split(s, sep) ==
    LET i == IndexFrom(s, {sep}, 1)
    IN  IF i = 0 THEN <<s>>
        ELSE <<SubSeq(s, 1, i - 1)>> \o split(SubSeq(s, i + 1, Len(s)), sep)

\* whether the literal text p occurs in s at index i
StartsWithAt(s, p, i) ==
    /\ i + Len(p) - 1 <= Len(s)
    /\ \A k \in 1..Len(p) : s[i + k - 1] = p[k]

RECURSIVE Concat(_)
Concat(ss) == IF ss = <<>> THEN <<>> ELSE Head(ss) \o Concat(Tail(ss))

\* the elements of a sequence
Range(s) == {s[i] : i \in DOMAIN s}

----------------------------------------------------------------------------
\* extract_citations_from_tex

cite == <<"c", "i", "t", "e">>
citep == cite \o <<"p">>
citet == cite \o <<"t">>
citeauthor == cite \o <<"a", "u", "t", "h", "o", "r">>
citeyear == cite \o <<"y", "e", "a", "r">>
citeyearpar == citeyear \o <<"p", "a", "r">>
autocite == <<"a", "u", "t", "o">> \o cite
nocite == <<"n", "o">> \o cite

\* the literal head  \<name>{  of the pattern  \\<name>\{([^}]+)\}
PatternHead(name) == <<"\\">> \o name \o <<"{">>

citation_patterns ==
    << PatternHead(cite), PatternHead(citep), PatternHead(citet),
       PatternHead(citeauthor), PatternHead(citeyear), PatternHead(citeyearpar),
       PatternHead(autocite), PatternHead(nocite) >>

\* Match of  head([^}]+)\}  starting exactly at index i: the index of the
\* closing brace, or 0 when there is no match at i.  [^}]+ takes every
\* character up to the first "}", and needs at least one.
CiteMatchEnd(content, head, i) ==
    LET a == i + Len(head)
        j == IndexFrom(content, {"}"}, a)
    IN  IF StartsWithAt(content, head, i) /\ j > a THEN j ELSE 0

\* re.findall(pattern, content): the captured groups of the non-overlapping
\* matches, scanning left to right from index i
RECURSIVE CiteFindall(_, _, _)
CiteFindall(content, head, i) ==
    IF i > Len(content) THEN <<>>
    ELSE LET e == CiteMatchEnd(content, head, i)
         IN  IF e = 0 THEN CiteFindall(content, head, i + 1)
             ELSE <<SubSeq(content, i + Len(head), e - 1)>>
                      \o CiteFindall(content, head, e + 1)

\* the keys one matched argument adds to the set
KeysOfMatch(match) ==
    LET keys == split(match, ",")
    IN  {strip(keys[k]) : k \in DOMAIN keys}

extract_citations_from_tex(content) ==
    UNION { UNION { KeysOfMatch(m) : m \in Range(CiteFindall(content, citation_patterns[p], 1)) }
            : p \in DOMAIN citation_patterns }

----------------------------------------------------------------------------
\* parse_bib_file

\* index of the first character at or after i that is not in cs, 0 if none
RECURSIVE SkipWhile(_, _, _)
SkipWhile(s, cs, i) ==
    IF i > Len(s) THEN 0
    ELSE IF s[i] \notin cs THEN i
    ELSE SkipWhile(s, cs, i + 1)

\* .*?\n\s*\}  from index i (DOTALL): the index of the closing brace of the
\* nearest newline that is followed by optional whitespace and "}", 0 if none
RECURSIVE ClosingBrace(_, _)
ClosingBrace(content, i) ==
    LET n == IndexFrom(content, {"\n"}, i)
        t == IF n = 0 THEN 0 ELSE SkipWhile(content, Whitespace, n + 1)
    IN  IF n = 0 THEN 0
        ELSE IF t # 0 /\ content[t] = "}" THEN t
        ELSE ClosingBrace(content, n + 1)

\* Match of entry_pattern  (@\w+\{([^,\n]+),.*?\n\s*\})  starting exactly at
\* index i: [first index of the key, last index of the key, index of the
\* closing brace], or <<>> when there is no match at i
EntryMatch(content, i) ==
    LET w  == SkipWhile(content, (Range(content) \ NonWord), i + 1)   \* end of \w+
        k0 == w + 1
        c  == IndexFrom(content, {",", "\n"}, k0)                     \* end of [^,\n]+
        e  == IF c = 0 THEN 0 ELSE ClosingBrace(content, c + 1)
    IN  IF /\ content[i] = "@"
           /\ w > i + 1
           /\ content[w] = "{"
           /\ c > k0
           /\ content[c] = ","
           /\ e # 0
        THEN <<k0, c - 1, e>>
        ELSE <<>>

\* re.findall(entry_pattern, content, re.DOTALL): the <<full_entry, entry_name>>
\* pairs of the non-overlapping matches, scanning left to right from index i
RECURSIVE EntryFindall(_, _)
EntryFindall(content, i) ==
    IF i > Len(content) THEN <<>>
    ELSE LET m == EntryMatch(content, i)
         IN  IF m = <<>> THEN EntryFindall(content, i + 1)
             ELSE << <<SubSeq(content, i, m[3]), SubSeq(content, m[1], m[2])>> >>
                      \o EntryFindall(content, m[3] + 1)

\* StoreEntries that keeps the first entry stored under a key
RECURSIVE StoreEntriesKeepFirst(_, _)
StoreEntriesKeepFirst(entries, matches) ==
    IF matches = <<>> THEN entries
    ELSE LET full_entry == Head(matches)[1]
             entry_name == Head(matches)[2]
         IN  StoreEntriesKeepFirst(entries @@ (strip(entry_name) :> full_entry), Tail(matches))

\* for full_entry, entry_name in matches: entries[entry_name.strip()] = full_entry
RECURSIVE StoreEntries(_, _)
StoreEntries(entries, matches) ==
    IF matches = <<>> THEN entries
    ELSE LET full_entry == Head(matches)[1]
             entry_name == Head(matches)[2]
         IN  StoreEntries((strip(entry_name) :> full_entry) @@ entries, Tail(matches))

EmptyDict == [k \in {} |-> <<>>]

parse_bib_file(content) == StoreEntries(EmptyDict, EntryFindall(content, 1))

----------------------------------------------------------------------------
\* filter_and_sort_bib_entries

\* the orders in which iterating a Python set can enumerate its elements
SetOrders(S) ==
    {o \in [1..Cardinality(S) -> S] : \A i, j \in 1..Cardinality(S) : o[i] = o[j] => i = j}

\* first loop: filtered_entries
FilteredEntries(entries, citation_keys) ==
    [key \in {k \in citation_keys : k \in DOMAIN entries} |-> entries[key]]

\* second loop: sorted_entries, for the enumeration order of citation_keys
RECURSIVE SortedEntries(_, _)
SortedEntries(filtered, order) ==
    IF order = <<>> THEN <<>>
    ELSE LET key == Head(order)
         IN  (IF key \in DOMAIN filtered THEN << <<key, filtered[key]>> >> ELSE <<>>)
                 \o SortedEntries(filtered, Tail(order))

\* filter_and_sort_bib_entries that loops over the bibliography instead of the citations
filter_and_sort_all_entries(entries, order) ==
    SortedEntries(entries, CHOOSE o \in SetOrders(DOMAIN entries) : TRUE)

filter_and_sort_bib_entries(entries, order) ==
    SortedEntries(FilteredEntries(entries, Range(order)), order)

----------------------------------------------------------------------------
\* write_bib_file

\* write_bib_file that ends each entry with a single newline
RECURSIVE write_bib_file_one_newline(_)
write_bib_file_one_newline(entries) ==
    IF entries = <<>> THEN <<>>
    ELSE Head(entries)[2] \o <<"\n">> \o write_bib_file_one_newline(Tail(entries))

\* what the loop  f.write(entry + '\n\n')  leaves in the file opened with 'w'
RECURSIVE write_bib_file(_)
write_bib_file(entries) ==
    IF entries = <<>> THEN <<>>
    ELSE Head(entries)[2] \o <<"\n", "\n">> \o write_bib_file(Tail(entries))

----------------------------------------------------------------------------
\* Generated inputs

Cmd(name, arg) == <<"\\">> \o name \o <<"{">> \o arg \o <<"}">>

\* fragments of main.tex
TexPieces ==
    { Cmd(cite, <<"A">>),
      Cmd(citep, <<"B", ",", "A">>),
      Cmd(nocite, <<" ", "C", " ", ",", ",", "B">>),
      Cmd(autocite, <<" ">>),
      Cmd(cite, <<>>),
      Cmd(cite \o <<"x">>, <<"A">>) }

\* a well-formed entry block: "@m{<key>,<body>" and "}" alone on the next line
Entry(key, body) == <<"@", "m", "{">> \o key \o <<",">> \o body \o <<"\n", "}">>

\* a block whose first line has no comma after the key
Malformed(key, body) == <<"@", "m", "{">> \o key \o <<" ">> \o body \o <<"\n", "}">>

\* blocks of ref.bib
BibBlocks ==
    { [wellFormed |-> TRUE,  key |-> <<"A">>,           body |-> <<"x">>],
      [wellFormed |-> TRUE,  key |-> <<" ", "A", " ">>, body |-> <<"y", "\n", "\n", "z">>],
      [wellFormed |-> TRUE,  key |-> <<"B">>,           body |-> <<"x">>],
      [wellFormed |-> FALSE, key |-> <<"C">>,           body |-> <<"x">>] }

\* the text of a block as it stands in ref.bib
BlockText(b) == IF b.wellFormed THEN Entry(b.key, b.body) ELSE Malformed(b.key, b.body)

\* the text of ref.bib made of the blocks bs, each followed by a newline
RECURSIVE BibText(_)
BibText(bs) ==
    IF bs = <<>> THEN <<>> ELSE BlockText(Head(bs)) \o <<"\n">> \o BibText(Tail(bs))

SeqsUpTo(S, n) == UNION { [1..k -> S] : k \in 0..n }

TexTexts == { Concat(ps) : ps \in SeqsUpTo(TexPieces, MaxCmds) }

OldOutput == <<"o", "l", "d", "\n">>

----------------------------------------------------------------------------
\* split-pdf: the state when split-pdf is not the script being run

\* a PDF file: whether it exists, and its pages in order
NoFile == [exists |-> FALSE, pages |-> <<>>]
File(pages) == [exists |-> TRUE, pages |-> pages]

PdfIdle ==
    /\ argv = <<>>
    /\ pypdf2Installed = TRUE
    /\ fs = <<>>
    /\ fs0 = <<>>
    /\ ppc = "idle"
    /\ base_name = <<>>
    /\ writer = <<>>
    /\ pdfExit = Running
    /\ runs = 0
    /\ prevRun = <<>>

\* bib-sort: the state when bib-sort is not the script being run
BibIdle ==
    /\ texFile = Missing
    /\ bibFile = Missing
    /\ bibBlocks = <<>>
    /\ outFile = Missing
    /\ outFile0 = Missing
    /\ outWritable = TRUE
    /\ pc = "idle"
    /\ exc = "none"
    /\ citations = {}
    /\ bib_entries = EmptyDict
    /\ processed_entries = <<>>
    /\ stdout = <<>>
    /\ exitStatus = Running
    /\ phases = <<>>

----------------------------------------------------------------------------
\* bib-sort: main()

InitBib ==
    /\ prog = "bib-sort"
    /\ texFile \in {Missing, Undecodable} \cup TexTexts
    /\ \/ /\ bibBlocks \in SeqsUpTo(BibBlocks, MaxEntries)
          /\ bibFile = BibText(bibBlocks)
       \/ /\ bibBlocks = <<>>
          /\ bibFile \in {Missing, Undecodable}
    /\ outFile \in {Missing, OldOutput}
    /\ outFile0 = outFile
    /\ outWritable \in BOOLEAN
    /\ pc = "extract"
    /\ exc = "none"
    /\ citations = {}
    /\ bib_entries = EmptyDict
    /\ processed_entries = <<>>
    /\ stdout = <<>>
    /\ exitStatus = Running
    /\ phases = <<>>
    /\ PdfIdle

\* ReadError with a missing file read as if it were there
ReadErrorIgnoresMissing(file) ==
    IF file = Undecodable THEN "UnicodeDecodeError" ELSE "none"

\* open(path, 'r', encoding='utf-8') and f.read(): the exception raised, or "none"
ReadError(file) ==
    IF file = Missing THEN "FileNotFoundError"
    ELSE IF file = Undecodable THEN "UnicodeDecodeError"
    ELSE "none"

Raise(e) ==
    /\ exc' = e
    /\ pc' = "except"

\* lines 127-129
ExtractCitations ==
    /\ prog = "bib-sort"
    /\ pc = "extract"
    /\ phases' = Append(phases, "extract")
    /\ IF ReadError(texFile) # "none"
       THEN /\ Raise(ReadError(texFile))
            /\ stdout' = Append(stdout, "Extracting citations")
            /\ UNCHANGED citations
       ELSE /\ citations' = extract_citations_from_tex(texFile)
            /\ stdout' = stdout \o <<"Extracting citations", "Found unique citations">>
            /\ pc' = "parse"
            /\ UNCHANGED exc
    /\ UNCHANGED pdfVars
    /\ UNCHANGED <<prog, texFile, bibFile, bibBlocks, outFile, outFile0, outWritable,
                   bib_entries, processed_entries, exitStatus>>

\* lines 132-134
ParseBib ==
    /\ prog = "bib-sort"
    /\ pc = "parse"
    /\ phases' = Append(phases, "parse")
    /\ IF ReadError(bibFile) # "none"
       THEN /\ Raise(ReadError(bibFile))
            /\ stdout' = Append(stdout, "Parsing bibliography entries")
            /\ UNCHANGED bib_entries
       ELSE /\ bib_entries' = parse_bib_file(bibFile)
            /\ stdout' = stdout \o <<"Parsing bibliography entries", "Found entries in bibliography">>
            /\ pc' = "filter"
            /\ UNCHANGED exc
    /\ UNCHANGED pdfVars
    /\ UNCHANGED <<prog, texFile, bibFile, bibBlocks, outFile, outFile0, outWritable,
                   citations, processed_entries, exitStatus>>

\* lines 137-139
FilterAndSort ==
    /\ prog = "bib-sort"
    /\ pc = "filter"
    /\ phases' = Append(phases, "filter")
    /\ \E order \in SetOrders(citations) :
           processed_entries' = filter_and_sort_bib_entries(bib_entries, order)
    /\ stdout' = stdout \o <<"Filtering and sorting entries", "Kept cited entries">>
    /\ pc' = "write"
    /\ UNCHANGED pdfVars
    /\ UNCHANGED <<prog, texFile, bibFile, bibBlocks, outFile, outFile0, outWritable,
                   exc, citations, bib_entries, exitStatus>>

\* WriteBib with the output file opened in append mode
WriteBibAppends ==
    /\ prog = "bib-sort"
    /\ pc = "write"
    /\ phases' = Append(phases, "write")
    /\ IF ~outWritable
       THEN /\ Raise("PermissionError")
            /\ stdout' = Append(stdout, "Writing processed bibliography")
            /\ UNCHANGED <<outFile, exitStatus>>
       ELSE /\ outFile' = (IF outFile = Missing THEN <<>> ELSE outFile)
                               \o write_bib_file(processed_entries)
            /\ stdout' = stdout \o <<"Writing processed bibliography", "Processing complete!">>
            /\ pc' = "done"
            /\ exitStatus' = 0
            /\ UNCHANGED exc
    /\ UNCHANGED pdfVars
    /\ UNCHANGED <<prog, texFile, bibFile, bibBlocks, outFile0, outWritable,
                   citations, bib_entries, processed_entries>>

\* lines 142-144, and the return of main()
WriteBib ==
    /\ prog = "bib-sort"
    /\ pc = "write"
    /\ phases' = Append(phases, "write")
    /\ IF ~outWritable
       THEN /\ Raise("PermissionError")
            /\ stdout' = Append(stdout, "Writing processed bibliography")
            /\ UNCHANGED <<outFile, exitStatus>>
       ELSE /\ outFile' = write_bib_file(processed_entries)
            /\ stdout' = stdout \o <<"Writing processed bibliography", "Processing complete!">>
            /\ pc' = "done"
            /\ exitStatus' = 0
            /\ UNCHANGED exc
    /\ UNCHANGED pdfVars
    /\ UNCHANGED <<prog, texFile, bibFile, bibBlocks, outFile0, outWritable,
                   citations, bib_entries, processed_entries>>

\* lines 146-148
HandleFileNotFound ==
    /\ prog = "bib-sort"
    /\ pc = "except"
    /\ exc = "FileNotFoundError"
    /\ stdout' = Append(stdout, "Error: File not found")
    /\ exitStatus' = 1
    /\ pc' = "done"
    /\ UNCHANGED pdfVars
    /\ UNCHANGED <<prog, texFile, bibFile, bibBlocks, outFile, outFile0, outWritable, exc,
                   citations, bib_entries, processed_entries, phases>>

\* HandleException without the sys.exit(1): main() returns and the status is 0
HandleExceptionNoExit ==
    /\ prog = "bib-sort"
    /\ pc = "except"
    /\ exc # "FileNotFoundError"
    /\ stdout' = Append(stdout, "Error")
    /\ exitStatus' = 0
    /\ pc' = "done"
    /\ UNCHANGED pdfVars
    /\ UNCHANGED <<prog, texFile, bibFile, bibBlocks, outFile, outFile0, outWritable, exc,
                   citations, bib_entries, processed_entries, phases>>

\* lines 149-151
HandleException ==
    /\ prog = "bib-sort"
    /\ pc = "except"
    /\ exc # "FileNotFoundError"
    /\ stdout' = Append(stdout, "Error")
    /\ exitStatus' = 1
    /\ pc' = "done"
    /\ UNCHANGED pdfVars
    /\ UNCHANGED <<prog, texFile, bibFile, bibBlocks, outFile, outFile0, outWritable, exc,
                   citations, bib_entries, processed_entries, phases>>

----------------------------------------------------------------------------
\* split-pdf

\* "num_pages = min(len(reader.pages), 5)"
PageLimit == 5

\* A file name is a sequence of name parts; ".pdf" is one part, so that
\* endswith('.pdf') and replace('.pdf', '') are computed on the parts.
PdfNames ==
    { <<"a">>, <<"a", ".pdf">>, <<"a", ".pdf", ".pdf">>, <<"a", "_with_ref">> }

\* pdf_name.replace('.pdf', '') if pdf_name.endswith('.pdf') else pdf_name
BaseName(pdf_name) ==
    IF pdf_name # <<>> /\ pdf_name[Len(pdf_name)] = ".pdf"
    THEN SelectSeq(pdf_name, LAMBDA part : part # ".pdf")
    ELSE pdf_name

\* f"{base_name}.pdf"
InputFile(base) == base \o <<".pdf">>

\* f"{base_name}_with_ref.pdf"
BackupFile(base) == base \o <<"_with_ref", ".pdf">>

FileNames ==
    {InputFile(BaseName(n)) : n \in PdfNames} \cup {BackupFile(BaseName(n)) : n \in PdfNames}

\* a document of n pages, its pages numbered from first + 1
Doc(first, n) == File([i \in 1..n |-> first + i])

Min(a, b) == IF a <= b THEN a ELSE b

\* FirstPages with the loop running over range(num_pages - 1)
FirstPagesOffByOne(pages) == SubSeq(pages, 1, Min(Len(pages), PageLimit) - 1)

\* the pages process_pdf adds to the writer: the first min(len(pages), 5)
FirstPages(pages) == SubSeq(pages, 1, Min(Len(pages), PageLimit))

\* the files of the directory before the first run
InitialFiles ==
    { f \in [FileNames -> {NoFile} \cup {Doc(0, n) : n \in 0..MaxPages}
                                   \cup {Doc(100, MaxPages)}] :
        /\ f[InputFile(<<"a">>)] # Doc(100, MaxPages)
        /\ f[BackupFile(<<"a">>)] \in {NoFile, Doc(100, MaxPages)}
        /\ f[BackupFile(<<"a", "_with_ref">>)] = NoFile }

InitPdf ==
    /\ prog = "split-pdf"
    /\ BibIdle
    /\ argv \in {<<>>} \cup {<<n>> : n \in PdfNames}
    /\ pypdf2Installed \in BOOLEAN
    /\ fs \in InitialFiles
    /\ fs0 = fs
    /\ ppc = "main"
    /\ base_name = <<>>
    /\ writer = <<>>
    /\ pdfExit = Running
    /\ runs = 1
    /\ prevRun = <<>>

\* main(), lines 64-69: the usage check
CheckArguments ==
    /\ prog = "split-pdf"
    /\ ppc = "main"
    /\ IF Len(argv) < 1
       THEN /\ pdfExit' = 1
            /\ ppc' = "exited"
       ELSE /\ ppc' = "requirements"
            /\ UNCHANGED pdfExit
    /\ UNCHANGED <<prog, bibVars, argv, pypdf2Installed, fs, fs0, base_name, writer, runs, prevRun>>

\* check_requirements(): shutil is always importable, PyPDF2 may be absent
check_requirements == IF pypdf2Installed THEN <<>> ELSE <<"PyPDF2">>

\* main(), lines 72-85
CheckRequirements ==
    /\ prog = "split-pdf"
    /\ ppc = "requirements"
    /\ IF check_requirements # <<>>
       THEN /\ pdfExit' = 1
            /\ ppc' = "exited"
       ELSE /\ ppc' = "process"
            /\ UNCHANGED pdfExit
    /\ UNCHANGED <<prog, bibVars, argv, pypdf2Installed, fs, fs0, base_name, writer, runs, prevRun>>

\* process_pdf(), lines 33-41
CheckInput ==
    /\ prog = "split-pdf"
    /\ ppc = "process"
    /\ base_name' = BaseName(argv[1])
    /\ IF ~fs[InputFile(BaseName(argv[1]))].exists
       THEN /\ pdfExit' = 1
            /\ ppc' = "exited"
       ELSE /\ ppc' = "copy"
            /\ UNCHANGED pdfExit
    /\ UNCHANGED <<prog, bibVars, argv, pypdf2Installed, fs, fs0, writer, runs, prevRun>>

\* CopyBackup that keeps a backup that already exists
CopyBackupIfAbsent ==
    /\ prog = "split-pdf"
    /\ ppc = "copy"
    /\ fs' = IF fs[BackupFile(base_name)].exists THEN fs
             ELSE [fs EXCEPT ![BackupFile(base_name)] = fs[InputFile(base_name)]]
    /\ ppc' = "read"
    /\ UNCHANGED <<prog, bibVars, argv, pypdf2Installed, fs0, base_name, writer, pdfExit, runs, prevRun>>

\* process_pdf(), lines 44-45: shutil.copy2(input_file, backup_file)
CopyBackup ==
    /\ prog = "split-pdf"
    /\ ppc = "copy"
    /\ fs' = [fs EXCEPT ![BackupFile(base_name)] = fs[InputFile(base_name)]]
    /\ ppc' = "read"
    /\ UNCHANGED <<prog, bibVars, argv, pypdf2Installed, fs0, base_name, writer, pdfExit, runs, prevRun>>

\* process_pdf(), lines 48-54: read the backup, add its first pages to the writer
ReadAndTruncate ==
    /\ prog = "split-pdf"
    /\ ppc = "read"
    /\ writer' = FirstPages(fs[BackupFile(base_name)].pages)
    /\ ppc' = "write"
    /\ UNCHANGED <<prog, bibVars, argv, pypdf2Installed, fs, fs0, base_name, pdfExit, runs, prevRun>>

\* process_pdf(), lines 57-60, and the return of main()
WriteTruncated ==
    /\ prog = "split-pdf"
    /\ ppc = "write"
    /\ fs' = [fs EXCEPT ![InputFile(base_name)] = File(writer)]
    /\ pdfExit' = 0
    /\ ppc' = "exited"
    /\ UNCHANGED <<prog, bibVars, argv, pypdf2Installed, fs0, base_name, writer, runs, prevRun>>

\* the script is run again, in the directory the previous run left
RunAgain ==
    /\ prog = "split-pdf"
    /\ ppc = "exited"
    /\ runs < MaxRuns
    /\ runs' = runs + 1
    /\ argv' \in {<<>>} \cup {<<n>> : n \in PdfNames}
    /\ prevRun' = IF pdfExit = 0 THEN <<InputFile(base_name), fs>> ELSE prevRun
    /\ fs0' = fs
    /\ ppc' = "main"
    /\ base_name' = <<>>
    /\ writer' = <<>>
    /\ pdfExit' = Running
    /\ UNCHANGED <<prog, bibVars, pypdf2Installed, fs>>

----------------------------------------------------------------------------

Init == InitBib \/ InitPdf

Next ==
    \/ ExtractCitations
    \/ ParseBib
    \/ FilterAndSort
    \/ WriteBib
    \/ HandleFileNotFound
    \/ HandleException
    \/ CheckArguments
    \/ CheckRequirements
    \/ CheckInput
    \/ CopyBackup
    \/ ReadAndTruncate
    \/ WriteTruncated
    \/ RunAgain

Spec == Init /\ [][Next]_vars

----------------------------------------------------------------------------
\* Vocabulary of the properties

\* main() has returned from the named phase without an exception
Extracted == prog = "bib-sort" /\ pc \in {"parse", "filter", "write"} \cup
                 (IF Len(phases) >= 2 THEN {"except", "done"} ELSE {})
Parsed == prog = "bib-sort" /\ pc \in {"filter", "write"} \cup
                 (IF Len(phases) >= 3 THEN {"except", "done"} ELSE {})
Filtered == prog = "bib-sort" /\ pc \in {"write"} \cup
                 (IF Len(phases) >= 4 THEN {"except", "done"} ELSE {})
Succeeded == prog = "bib-sort" /\ pc = "done" /\ exitStatus = 0

Readable(file) == file \notin {Missing, Undecodable}

\* the keys and the texts of an OrderedDict, in its order
KeysOf(entries) == [i \in DOMAIN entries |-> entries[i][1]]
TextsOf(entries) == [i \in DOMAIN entries |-> entries[i][2]]

\* the keys cited by the document in reading order: the commands from the top
\* of the text to its end, the keys of a command from left to right
RECURSIVE CitedInOrder(_, _)
CitedInOrder(content, i) ==
    IF i > Len(content) THEN <<>>
    ELSE LET hits == {p \in DOMAIN citation_patterns :
                         CiteMatchEnd(content, citation_patterns[p], i) # 0}
         IN  IF hits = {} THEN CitedInOrder(content, i + 1)
             ELSE LET head == citation_patterns[CHOOSE p \in hits : TRUE]
                      e    == CiteMatchEnd(content, head, i)
                      keys == split(SubSeq(content, i + Len(head), e - 1), ",")
                  IN  [k \in DOMAIN keys |-> strip(keys[k])] \o CitedInOrder(content, e + 1)

\* a sequence without the later repetitions of its elements
RECURSIVE FirstOccurrences(_, _)
FirstOccurrences(seq, seen) ==
    IF seq = <<>> THEN <<>>
    ELSE IF Head(seq) \in seen THEN FirstOccurrences(Tail(seq), seen)
    ELSE <<Head(seq)>> \o FirstOccurrences(Tail(seq), seen \cup {Head(seq)})

FirstCitationOrder(content) == FirstOccurrences(CitedInOrder(content, 1), {})

\* the text holds no recognized citation command: nowhere does "\<name>{"
\* stand before a non-empty argument without "}" and a closing "}"
NoCitationCommand(content) ==
    \A p \in DOMAIN citation_patterns : \A i \in 1..Len(content) :
        LET a == i + Len(citation_patterns[p])
        IN  ~ /\ StartsWithAt(content, citation_patterns[p], i)
              /\ a <= Len(content)
              /\ content[a] # "}"
              /\ \E j \in a + 1..Len(content) : content[j] = "}"

\* the pieces of a text between its blank-line separators ("\n\n")
RECURSIVE SplitOnBlankLines(_)
SplitOnBlankLines(text) ==
    LET at == {i \in 1..Len(text) - 1 : text[i] = "\n" /\ text[i + 1] = "\n"}
    IN  IF at = {} THEN <<text>>
        ELSE LET i == CHOOSE i \in at : \A j \in at : i <= j
             IN  <<SubSeq(text, 1, i - 1)>> \o SplitOnBlankLines(SubSeq(text, i + 2, Len(text)))

\* the blocks of a file: its pieces, without the empty piece after the last separator
BlocksOf(text) ==
    LET ps == SplitOnBlankLines(text)
    IN  IF ps[Len(ps)] = <<>> THEN SubSeq(ps, 1, Len(ps) - 1) ELSE ps

HasBlankLine(text) == \E i \in 1..Len(text) - 1 : text[i] = "\n" /\ text[i + 1] = "\n"

\* a text that blank-line splitting gives back unchanged
Splittable(text) ==
    /\ text # <<>>
    /\ text[1] # "\n"
    /\ text[Len(text)] # "\n"
    /\ ~HasBlankLine(text)

\* how many times sub occurs in text
Occurrences(text, sub) == Cardinality({i \in 1..Len(text) : StartsWithAt(text, sub, i)})

\* the index of the last well-formed block of ref.bib whose trimmed key is k
LastBlockWithKey(k) ==
    CHOOSE i \in DOMAIN bibBlocks :
        /\ bibBlocks[i].wellFormed /\ strip(bibBlocks[i].key) = k
        /\ \A j \in DOMAIN bibBlocks :
               (bibBlocks[j].wellFormed /\ strip(bibBlocks[j].key) = k) => j <= i

WellFormedKeys == {strip(bibBlocks[i].key) : i \in {j \in DOMAIN bibBlocks : bibBlocks[j].wellFormed}}

PhaseOrder == <<"extract", "parse", "filter", "write">>

IsPrefix(s, t) == Len(s) <= Len(t) /\ SubSeq(t, 1, Len(s)) = s

PcRank ==
    CASE pc = "extract" -> 0
      [] pc = "parse"   -> 1
      [] pc = "filter"  -> 2
      [] pc = "write"   -> 3
      [] pc = "except"  -> 4
      [] OTHER          -> 5

----------------------------------------------------------------------------
\* C1: the entries bib-sort keeps are in first-citation order: the keys of the
\* filtered and sorted entries are the cited keys in the order of their first
\* citation in the document, without the keys the bibliography does not have.
C1_FirstCitationOrder ==
    Filtered =>
        KeysOf(processed_entries)
            = SelectSeq(FirstCitationOrder(texFile), LAMBDA k : k \in DOMAIN bib_entries)

\* C2: filter_and_sort_bib_entries returns exactly one entry for each key that
\* is both cited and in the bibliography, nothing else, no key twice, and each
\* entry with the text the bibliography has for its key.
C2_ExactlyTheCitedEntries ==
    Filtered =>
        /\ Range(KeysOf(processed_entries)) = citations \cap DOMAIN bib_entries
        /\ Len(processed_entries) = Cardinality(citations \cap DOMAIN bib_entries)
        /\ \A i \in DOMAIN processed_entries :
               processed_entries[i][2] = bib_entries[processed_entries[i][1]]

\* a run where a cited key has no entry, an entry is not cited, and an entry is kept
C2_Witness ==
    /\ Filtered
    /\ citations \ DOMAIN bib_entries # {}
    /\ DOMAIN bib_entries \ citations # {}
    /\ Len(processed_entries) = 1

\* C3: with main.tex or ref.bib missing the run ends with a non-zero status and
\* ref_output.bib stays as it was; the output file is written only in runs
\* that have read both inputs.
C3_MissingInputLeavesOutput ==
    prog = "bib-sort" =>
        /\ (texFile = Missing \/ bibFile = Missing) =>
               /\ outFile = outFile0
               /\ exitStatus # 0
               /\ pc = "done" => exitStatus = 1
        /\ (outFile # outFile0 \/ "write" \in Range(phases)) =>
               /\ Readable(texFile) /\ Readable(bibFile)
               /\ IsPrefix(<<"extract", "parse">>, phases)

\* a run that read main.tex, found ref.bib missing and ended with status 1
C3_Witness ==
    /\ prog = "bib-sort"
    /\ Readable(texFile) /\ citations # {}
    /\ bibFile = Missing
    /\ pc = "done" /\ exitStatus = 1
    /\ outFile = OldOutput

\* C4: every key of the Citation Set is a non-empty string without leading or
\* trailing whitespace.
C4_KeysNonEmptyAndTrimmed ==
    Extracted =>
        \A k \in citations :
            /\ k # <<>>
            /\ k[1] \notin Whitespace
            /\ k[Len(k)] \notin Whitespace

\* C5: when several well-formed entries of ref.bib have the same trimmed key,
\* the mapping holds the text of the last of them under that key, and if the
\* key is cited the output file holds that text once and none of the others.
C5_LastDuplicateWins ==
    /\ Parsed =>
           \A k \in WellFormedKeys :
               /\ k \in DOMAIN bib_entries
               /\ bib_entries[k] = BlockText(bibBlocks[LastBlockWithKey(k)])
    /\ Succeeded =>
           \A k \in WellFormedKeys \cap citations :
               LET last == BlockText(bibBlocks[LastBlockWithKey(k)])
               IN  /\ Cardinality({i \in DOMAIN processed_entries :
                                       processed_entries[i][1] = k}) = 1
                   /\ Occurrences(outFile, last) = 1
                   /\ \A j \in DOMAIN bibBlocks :
                          ( /\ bibBlocks[j].wellFormed
                            /\ strip(bibBlocks[j].key) = k
                            /\ BlockText(bibBlocks[j]) # last )
                              => Occurrences(outFile, BlockText(bibBlocks[j])) = 0

\* a successful run on a bibliography with two different entries under the cited key A
C5_Witness ==
    /\ Succeeded
    /\ Len(bibBlocks) = 2
    /\ bibBlocks[1].wellFormed /\ bibBlocks[2].wellFormed
    /\ bibBlocks[1].key # bibBlocks[2].key
    /\ strip(bibBlocks[1].key) = <<"A">> /\ strip(bibBlocks[2].key) = <<"A">>
    /\ <<"A">> \in citations
    /\ Occurrences(outFile, BlockText(bibBlocks[2])) = 1

\* C6 as stated: the written file splits on its blank-line separators into
\* exactly the N raw texts of the entries, in order.
C6_RoundTripAnyEntry ==
    Succeeded => BlocksOf(outFile) = TextsOf(processed_entries)

\* C6 amended: when no entry's raw text is empty, holds a blank line or begins
\* or ends with a newline, the written file, whatever it held before, splits
\* on its blank-line separators into exactly the N raw texts, in order.
C6_RoundTripSplittableEntries ==
    (Succeeded /\ \A i \in DOMAIN processed_entries : Splittable(processed_entries[i][2]))
        => BlocksOf(outFile) = TextsOf(processed_entries)

\* a successful run that wrote two entries over an existing output file
C6_Witness ==
    /\ Succeeded
    /\ outFile0 = OldOutput
    /\ Len(processed_entries) = 2
    /\ \A i \in DOMAIN processed_entries : Splittable(processed_entries[i][2])
    /\ Len(BlocksOf(outFile)) = 2

\* C7: a run on a document without a recognized citation command and a
\* non-empty bibliography, with the output file writable, raises nothing, ends
\* with status 0 and leaves an empty output file, whatever the file held before.
C7_NoCitationsEmptyOutput ==
    ( /\ prog = "bib-sort"
      /\ Readable(texFile) /\ NoCitationCommand(texFile)
      /\ Readable(bibFile) /\ bibFile # <<>>
      /\ outWritable )
        => /\ exc = "none"
           /\ pc = "done" => (exitStatus = 0 /\ outFile = <<>>)

\* a finished run on a document that has text but no citation, with entries in
\* the bibliography and an old output file
C7_Witness ==
    /\ Succeeded
    /\ texFile # <<>> /\ NoCitationCommand(texFile)
    /\ DOMAIN bib_entries # {}
    /\ outFile0 = OldOutput
    /\ outFile = <<>>

\* C8, the state of a run: it is running, or ended with status 0 after the four
\* phases in order with the completion message printed last, or ended with
\* status 1 after a diagnostic message as soon as a phase raised; a run that
\* has not ended stands at a phase or at a handler that takes the exception
\* (the two reading phases are enabled by their position alone).
RunEndsOneOfTwoWays ==
    prog = "bib-sort" =>
        /\ exitStatus \in {Running, 0, 1}
        /\ (pc = "done") = (exitStatus # Running)
        /\ pc \in {"extract", "parse", "filter", "write", "except", "done"}
        /\ pc \in {"filter", "write", "except"} =>
               ENABLED (FilterAndSort \/ WriteBib \/ HandleFileNotFound \/ HandleException)
        /\ exitStatus = 0 =>
               /\ exc = "none"
               /\ phases = PhaseOrder
               /\ stdout[Len(stdout)] = "Processing complete!"
        /\ exitStatus = 1 =>
               /\ exc # "none"
               /\ stdout[Len(stdout)] \in {"Error: File not found", "Error"}
               /\ (exc = "FileNotFoundError") = (stdout[Len(stdout)] = "Error: File not found")
        /\ exc # "none" => pc \in {"except", "done"}
        /\ IsPrefix(phases, PhaseOrder)

\* C8, the steps of a run: every step moves main() forward, and after a phase
\* has raised no phase is entered and the next step ends the run with status 1.
RunStepsForward ==
    prog = "bib-sort" =>
        /\ PcRank' > PcRank
        /\ exc # "none" => (phases' = phases /\ exc' = exc /\ exitStatus' = 1
                                /\ outFile' = outFile)

\* C8: every run of main ends in exactly one of two ways: with status zero
\* after extraction, parsing, filter/reorder and serialization ran in this
\* order and the completion message was printed last, or with a non-zero
\* status after a diagnostic message, whenever a phase raises, with no later
\* phase executed.
C8_RunEndsProperly == [](RunEndsOneOfTwoWays) /\ [][RunStepsForward]_vars

\* a run that ended with status 1 because the output file could not be opened
C8_Witness ==
    /\ prog = "bib-sort"
    /\ pc = "done" /\ exitStatus = 1
    /\ exc = "PermissionError"
    /\ phases = PhaseOrder
    /\ stdout[Len(stdout)] = "Error"

\* C9: after a successful run of split-pdf the original file holds the first
\* min(n, 5) pages of the n-page document in their order and the backup holds
\* all n pages; when the input file does not exist the run writes no file and
\* ends with a non-zero status.
C9_TruncatesAndBacksUp ==
    (prog = "split-pdf" /\ Len(argv) >= 1) =>
        LET input  == InputFile(BaseName(argv[1]))
            backup == BackupFile(BaseName(argv[1]))
            n      == Len(fs0[input].pages)
        IN  /\ (ppc = "exited" /\ pdfExit = 0) =>
                   /\ fs0[input].exists
                   /\ fs[input].exists
                   /\ Len(fs[input].pages) = (IF n <= 5 THEN n ELSE 5)
                   /\ \A i \in 1..Len(fs[input].pages) : fs[input].pages[i] = fs0[input].pages[i]
                   /\ fs[backup] = fs0[input]
                   /\ \A f \in FileNames \ {input, backup} : fs[f] = fs0[f]
            /\ ~fs0[input].exists =>
                   /\ fs = fs0
                   /\ pdfExit # 0
                   /\ ppc = "exited" => pdfExit = 1

\* a successful run on a document of more than 5 pages
C9_Witness ==
    /\ prog = "split-pdf"
    /\ ppc = "exited" /\ pdfExit = 0
    /\ Len(fs0[InputFile(base_name)].pages) > 5
    /\ Len(fs[InputFile(base_name)].pages) = 5
    /\ Len(fs[BackupFile(base_name)].pages) > 5

\* C10: a successful run that follows a successful run on the same file
\* leaves the truncated original as it was and replaces the backup by it, so
\* the backup then holds at most 5 pages and no longer a longer document.
C10_RerunReplacesBackup ==
    ( /\ prog = "split-pdf"
      /\ ppc = "exited" /\ pdfExit = 0
      /\ prevRun # <<>>
      /\ prevRun[1] = InputFile(base_name) )
        => LET input  == InputFile(base_name)
               backup == BackupFile(base_name)
               before == prevRun[2]
           IN  /\ fs[input] = before[input]
               /\ fs[backup] = before[input]
               /\ Len(fs[backup].pages) <= 5
               /\ Len(before[backup].pages) > 5 => fs[backup] # before[backup]

\* a second successful run on a document that had more than 5 pages
C10_Witness ==
    /\ prog = "split-pdf"
    /\ ppc = "exited" /\ pdfExit = 0
    /\ prevRun # <<>>
    /\ prevRun[1] = InputFile(base_name)
    /\ Len(prevRun[2][BackupFile(base_name)].pages) > 5
    /\ Len(fs[BackupFile(base_name)].pages) = 5

====
